---- MODULE Spec2Model ----
(***************************************************************************)
(* Model of Data_preprocessing.py: the batch pipeline that turns a tree of *)
(* experiment folders holding .asc run files into one workbook, one sheet  *)
(* per folder, with background-subtracted and averaged columns.            *)
(*                                                                         *)
(* Strings that the program takes apart (paths, file names) are sequences  *)
(* of tokens; a table (pandas DataFrame) is a record of its index labels,  *)
(* the name of its index and its columns in positional order; a cell is a  *)
(* tagged record (missing, number, string).  DataFrames are objects on a   *)
(* heap and the program's variables hold references to them.               *)
(***************************************************************************)
EXTENDS Integers, Sequences, FiniteSets, TLC

\* Number of pixel rows of an experiment table (range(1, 1025)).
NumPixels == 1024

\* Bounds of the explored inputs.
MaxRuns == 3
MaxFolders == 2

---------------------------------------------------------------------------
(* Cells *)

\* NaN / None: a missing cell.
NaN == [na |-> TRUE]
Str(s) == [s |-> s]
IsNa(c) == "na" \in DOMAIN c
IsStr(c) == "s" \in DOMAIN c
IsNum(c) == "n" \in DOMAIN c

RECURSIVE Gcd(_, _)
Gcd(a, b) == IF b = 0 THEN a ELSE Gcd(b, a % b)
Abs(a) == IF a < 0 THEN 0 - a ELSE a

\* A number n/d in lowest terms with d > 0.
Frac(n, d) ==
    LET g == Gcd(Abs(n), d)
    IN  [n |-> n \div g, d |-> d \div g]
Num(v) == [n |-> v, d |-> 1]

\* Element-wise subtraction of two cells; a missing operand gives NaN.
CellSub(x, y) ==
    IF IsNa(x) \/ IsNa(y) THEN NaN
    ELSE Frac(x.n * y.d - y.n * x.d, x.d * y.d)

CellAdd(x, y) == Frac(x.n * y.d + y.n * x.d, x.d * y.d)

---------------------------------------------------------------------------
(* Strings as token sequences *)

Last(s) == s[Len(s)]

\* str.replace(old, new) on single-token patterns.
Replace(s, old, new) == [k \in 1..Len(s) |-> IF s[k] = old THEN new ELSE s[k]]

\* str.split(sep): the pieces between occurrences of sep.
RECURSIVE SplitFrom(_, _, _, _)
SplitFrom(s, sep, k, piece) ==
    IF k > Len(s) THEN <<piece>>
    ELSE IF s[k] = sep THEN <<piece>> \o SplitFrom(s, sep, k + 1, <<>>)
    ELSE SplitFrom(s, sep, k + 1, Append(piece, s[k]))
Split(s, sep) == SplitFrom(s, sep, 1, <<>>)

\* str.endswith(suffix) for a one-token suffix.
EndsWith(s, suffix) == Len(s) > 0 /\ Last(s) = suffix

\* "Run: {}".format(i)
RunName(i) == <<"Run: ", ToString(i)>>

PixelName == <<"Pixel">>
MeanName == <<"Mean">>

---------------------------------------------------------------------------
(* The file system the program reads *)

Backslash == "\\"
Slash == "/"

start_path ==
    <<"C:", Slash, "Users", Slash, "Pedro", Slash, "Desktop", Slash,
      "2019-08-09_saline_reproducibility", Slash, "700">>
end_path ==
    <<"C:", Slash, "Users", Slash, "Pedro", Slash, "Desktop", Slash,
      "Test_Excel_Sheet", ".xlsx">>

\* Content of the directory entries by name: the number of rows of the file
\* and the intensity a + b * p of its p-th row.
Run1 == <<"run1", ".asc">>
Run2 == <<"run2", ".asc">>
Run3 == <<"run3", ".asc">>
ShortRun == <<"short", ".asc">>
LongRun == <<"long", ".asc">>
Notes == <<"notes", ".txt">>

FileRows(name) ==
    CASE name = ShortRun -> NumPixels - 1
      [] name = LongRun -> NumPixels + 1
      [] OTHER -> NumPixels

FileValue(name, p) ==
    CASE name = Run1 -> 10
      [] name = Run2 -> 15
      [] name = Run3 -> 12
      [] name = ShortRun -> 20 + p
      [] name = LongRun -> 7 + 2 * p
      [] OTHER -> 0

FolderEntries == {Run1, Run2, Run3, ShortRun, LongRun}
DirNames == {"a", "b"}

\* Sequences without repetition over S of length at most n.
RECURSIVE DistinctSeqs(_, _)
DistinctSeqs(S, n) ==
    IF n = 0 THEN {<<>>}
    ELSE LET shorter == DistinctSeqs(S, n - 1)
         IN  shorter \cup
             {Append(q, e) : <<q, e>> \in
                 {qe \in shorter \X S :
                     Len(qe[1]) = n - 1 /\ \A k \in 1..Len(qe[1]) : qe[1][k] # qe[2]}}

\* Directories below the root, as sequences of names relative to it.
RECURSIVE RelPaths(_)
RelPaths(n) ==
    IF n = 0 THEN {<<>>}
    ELSE RelPaths(n - 1) \cup
         {Append(p, d) : <<p, d>> \in {pd \in RelPaths(n - 1) \X DirNames : Len(pd[1]) = n - 1}}

Parent(p) == SubSeq(p, 1, Len(p) - 1)
IsPrefix(p, q) == Len(p) <= Len(q) /\ SubSeq(q, 1, Len(p)) = p

\* os.walk(top) visits the top first and every directory before its
\* sub-directories, one whole subtree after the other; the order of the
\* sub-directories of one directory is that of the file system.
IsWalk(w) ==
    /\ Len(w) >= 1
    /\ w[1] = <<>>
    /\ \A k \in 2..Len(w) :
          \E j \in 1..(k - 1) :
             /\ w[j] = Parent(w[k])
             /\ \A m \in (j + 1)..(k - 1) : IsPrefix(w[j], w[m])

Walks == {w \in DistinctSeqs(RelPaths(MaxFolders), MaxFolders + 1) : IsWalk(w)}

---------------------------------------------------------------------------
(* pandas tables *)

\* Position of label lab in an index of consecutive ascending integer
\* labels (every index the pipeline aligns on is one), 0 when absent.
LabelPos(index, lab) ==
    IF Len(index) = 0 \/ ~IsNum(lab) \/ ~IsNum(index[1]) THEN 0
    ELSE LET q == lab.n - index[1].n + 1
         IN  IF q \in 1..Len(index) /\ index[q] = lab THEN q ELSE 0

\* Series.reindex(index): the cells by label, NaN where the label is absent.
Reindex(series, index) ==
    [p \in 1..Len(index) |->
        LET q == LabelPos(series.index, index[p])
        IN  IF q = 0 THEN NaN ELSE series.cells[q]]

ColumnPos(t, name) ==
    IF \E c \in 1..Len(t.cols) : t.cols[c].name = name
    THEN CHOOSE c \in 1..Len(t.cols) : t.cols[c].name = name
    ELSE 0

\* dataframe[name] = series: aligned on the index of the table; a new name
\* is appended on the right, an existing one is overwritten in place.
SetColumn(t, name, series) ==
    LET col == [name |-> name, cells |-> Reindex(series, t.index)]
        c == ColumnPos(t, name)
    IN  IF c = 0 THEN [t EXCEPT !.cols = Append(@, col)]
        ELSE [t EXCEPT !.cols[c] = col]

\* dataframe.iloc[first:, c] with 0-based row offset first and column c.
ILoc(t, first, c) ==
    [index |-> SubSeq(t.index, first + 1, Len(t.index)),
     cells |-> SubSeq(t.cols[c + 1].cells, first + 1, Len(t.index))]

\* s1 - s2, aligned on the labels of s1.
SeriesSub(s1, s2) ==
    LET other == IF s2.index = s1.index THEN s2.cells ELSE Reindex(s2, s1.index)
    IN  [index |-> s1.index,
         cells |-> [p \in 1..Len(s1.index) |-> CellSub(s1.cells[p], other[p])]]

\* pd.DataFrame({"Pixel": [x for x in range(1, 1025)]})
PixelTable ==
    [index |-> [p \in 1..NumPixels |-> Num(p - 1)],
     iname |-> <<>>,
     cols |-> << [name |-> PixelName, cells |-> [p \in 1..NumPixels |-> Num(p)]] >>]

\* pd.read_csv(file_path, sep="\t", names=["Pixel", "value"]): one row per
\* line of the file, labelled 0, 1, ...
asc_read(file_path) ==
    LET name == Last(Split(file_path, Slash))
    IN  [index |-> [p \in 1..FileRows(name) |-> Num(p - 1)],
         iname |-> <<>>,
         cols |-> << [name |-> PixelName, cells |-> [p \in 1..FileRows(name) |-> Num(p)]],
                     [name |-> <<"value">>,
                      cells |-> [p \in 1..FileRows(name) |-> Num(FileValue(name, p))]] >>]

\* Faulty variant: numbers the runs from 0.
run_numbers_from_zero(t) ==
    <<NaN, Str("BG")>> \o [x \in 1..(Len(t.cols) - 2) |-> Num(x - 1)]

\* [None, "BG"] + [x for x in range(1, dataframe.shape[1] - 1)]
run_numbers(t) ==
    <<NaN, Str("BG")>> \o [x \in 1..(Len(t.cols) - 2) |-> Num(x)]

\* Faulty variant: the rows stay where they are.
SortIndexKeepsOrder(t) == t

\* dataframe.sort_index() of a table whose rows are in ascending label
\* order except for the one appended last.
SortIndex(t) ==
    LET n == Len(t.index)
        below == Cardinality({p \in 1..(n - 1) : t.index[p].n < t.index[n].n})
        from(p) == IF p <= below THEN p ELSE IF p = below + 1 THEN n ELSE p - 1
    IN  [t EXCEPT !.index = [p \in 1..n |-> t.index[from(p)]],
                  !.cols = [c \in 1..Len(t.cols) |->
                               [t.cols[c] EXCEPT !.cells = [p \in 1..n |-> t.cols[c].cells[from(p)]]]]]

\* The row assignment raises ValueError unless it has one value per column.
RowFits(t) == Len(run_numbers(t)) = Len(t.cols)

add_run_numbers(t) ==
    LET row == run_numbers(t)
        added == [t EXCEPT !.index = Append(@, Num(-1)),
                           !.cols = [c \in 1..Len(t.cols) |->
                                        [t.cols[c] EXCEPT !.cells = Append(@, row[c])]]]
        shifted == [added EXCEPT !.index = [p \in 1..Len(added.index) |-> Num(added.index[p].n + 1)]]
    IN  SortIndex(shifted)

\* The loop of iterate_over_runs over the entries of os.listdir(directory).
RECURSIVE AddRuns(_, _, _, _)
AddRuns(t, directory, entries, k) ==
    IF k > Len(entries) THEN t
    ELSE IF EndsWith(entries[k], ".asc")
         THEN AddRuns(SetColumn(t, entries[k], ILoc(asc_read(directory \o entries[k]), 0, 1)),
                      directory, entries, k + 1)
         ELSE AddRuns(t, directory, entries, k + 1)

\* Faulty variant: subtracts the column to the left, not the background.
DifferenceFromPrevious(t, i) == SeriesSub(ILoc(t, 1, i + 1), ILoc(t, 1, i))

\* df.iloc[1:, i+1] - df.iloc[1:, 1]
Difference(t, i) == SeriesSub(ILoc(t, 1, i + 1), ILoc(t, 1, 1))

\* The loop of subtract_background: heap h, parameter dataframe, the
\* process-wide df, the counter i and the column names still to visit.
RECURSIVE SubtractLoop(_, _, _, _, _)
SubtractLoop(h, dataframe, dfglobal, i, todo) ==
    IF todo = 0 THEN [heap |-> h, i |-> i]
    ELSE LET diff == Difference(h[dfglobal], i)
             h2 == [h EXCEPT ![dataframe] = SetColumn(h[dataframe], RunName(i), diff)]
         IN  SubtractLoop(h2, dataframe, dfglobal, i + 1, todo - 1)

\* Faulty variant: returns the counter i itself.
subtract_background_returning_i(h, dataframe, dfglobal) ==
    LET todo == IF Len(h[dataframe].cols) > 2 THEN Len(h[dataframe].cols) - 2 ELSE 0
        out == SubtractLoop(h, dataframe, dfglobal, 1, todo)
    IN  [heap |-> out.heap, count |-> out.i]

\* (dataframe, i - 1) with the heap the call leaves behind.
subtract_background(h, dataframe, dfglobal) ==
    LET todo == IF Len(h[dataframe].cols) > 2 THEN Len(h[dataframe].cols) - 2 ELSE 0
        out == SubtractLoop(h, dataframe, dfglobal, 1, todo)
    IN  [heap |-> out.heap, count |-> out.i - 1]

\* Column positions (1-based) of dataframe.iloc[:, -1 * number_of_runs:].
TrailingColumns(t, n) ==
    LET w == Len(t.cols)
    IN  IF n = 0 THEN 1..w
        ELSE IF n >= w THEN 1..w
        ELSE (w - n + 1)..w

RECURSIVE SumCells(_, _, _)
SumCells(t, p, cs) ==
    IF cs = {} THEN Num(0)
    ELSE LET c == CHOOSE x \in cs : TRUE
         IN  CellAdd(t.cols[c].cells[p], SumCells(t, p, cs \ {c}))

\* Faulty variant: a missing cell makes the mean of its row missing
\* (skipna=False).
MeanOverPropagating(t, cs) ==
    [index |-> t.index,
     cells |-> [p \in 1..Len(t.index) |->
                  IF cs = {} \/ \E c \in cs : IsNa(t.cols[c].cells[p]) THEN NaN
                  ELSE LET s == SumCells(t, p, cs)
                       IN  Frac(s.n, s.d * Cardinality(cs))]]

\* DataFrame.mean(axis=1) over the columns cs: NaN cells are skipped
\* (skipna=True), a row without any value gives NaN.
MeanOver(t, cs) ==
    [index |-> t.index,
     cells |-> [p \in 1..Len(t.index) |->
                  LET present == {c \in cs : ~IsNa(t.cols[c].cells[p])}
                  IN  IF present = {} THEN NaN
                      ELSE LET s == SumCells(t, p, present)
                           IN  Frac(s.n, s.d * Cardinality(present))]]

HasStr(t, cs) == \E c \in cs : \E p \in 1..Len(t.index) : IsStr(t.cols[c].cells[p])

\* The columns that _get_numeric_data() keeps when the reduction over all
\* selected cells fails on a string.  The dtype a column has after the row
\* assignment of add_run_numbers depends on the path pandas takes for it:
\* "reindex" leaves a column holding None numeric (NaN), "append" makes it
\* object.
NumericColumns(t, cs, path) ==
    {c \in cs :
        /\ \A p \in 1..Len(t.index) : ~IsStr(t.cols[c].cells[p])
        /\ path = "append" => ~IsNa(t.cols[c].cells[1])}

get_averaged_data_column(t, n, path) ==
    LET sel == TrailingColumns(t, n)
        used == IF HasStr(t, sel) THEN NumericColumns(t, sel, path) ELSE sel
    IN  SetColumn(t, MeanName, MeanOver(t, used))

\* averaged_df.set_index("Pixel"): a new table whose index is that column.
set_index(t, name) ==
    LET c == ColumnPos(t, name)
    IN  [index |-> t.cols[c].cells,
         iname |-> name,
         cols |-> [j \in 1..(Len(t.cols) - 1) |-> IF j < c THEN t.cols[j] ELSE t.cols[j + 1]]]

---------------------------------------------------------------------------
(* State *)

VARIABLES
    fs,                   \* the file system: os.sep, the walk of start_path, the listings
    pc,                   \* position of the script
    error,                \* the exception that ended the run, "" if none
    all_sub_directories,
    sub_directory_list,
    sub_directory_names,
    folder,               \* position of the top-level loop in sub_directory_list
    heap,                 \* the DataFrame objects, by reference
    df,                   \* process-wide variables of the top-level loop
    subtracted_df,
    number_of_runs,
    averaged_df,
    dataframes,
    writer,               \* the open ExcelWriter: its sheets in order
    i,                    \* counter of the sheet loop
    saves,                \* number of times the workbook was saved to end_path
    mean_input            \* names of the columns the last mean was taken over

vars == <<fs, pc, error, all_sub_directories, sub_directory_list, sub_directory_names,
          folder, heap, df, subtracted_df, number_of_runs, averaged_df, dataframes,
          writer, i, saves, mean_input>>

names == <<all_sub_directories, sub_directory_list, sub_directory_names>>
tables == <<heap, df, subtracted_df, number_of_runs, averaged_df, dataframes, mean_input>>
output == <<writer, i, saves>>

NoRef == 0

\* The listings a directory may have: the single experiment folder "a" of a
\* Windows file system takes any run files; in the other trees a folder
\* named "a" holds two run files in either order and a folder named "b"
\* holds two run files or only a file that is no run file.
Listings(w, s, d) ==
    IF w = << <<>>, <<"a">> >> /\ s = Backslash THEN DistinctSeqs(FolderEntries, MaxRuns)
    ELSE IF Last(d) = "a" THEN {<<Run1, Run2>>, <<Run2, Run1>>}
    ELSE {<<Notes>>, <<Run2, Run1>>}

\* os.sep: the trees with several folders are walked on Windows, the others
\* on either system.
Separators(w) == IF Len(w) > 2 THEN {Backslash} ELSE {Backslash, Slash}

Dirs(w) == {w[k] : k \in 2..Len(w)}

\* The choices of one listing for each of the directories w[k], w[k+1], ...
RECURSIVE ListingChoices(_, _, _)
ListingChoices(w, s, k) ==
    IF k > Len(w) THEN {<<>>}
    ELSE {<<x>> \o rest : x \in Listings(w, s, w[k]), rest \in ListingChoices(w, s, k + 1)}

FileSystems ==
    UNION {{[sep |-> s, walk |-> w,
             listing |-> [d \in Dirs(w) |-> q[(CHOOSE k \in 2..Len(w) : w[k] = d) - 1]]] :
               <<s, q>> \in UNION {{s2} \X ListingChoices(w, s2, 2) : s2 \in Separators(w)}} :
           w \in Walks}

\* The path os.walk reports for the directory rel: os.path.join from the top.
RECURSIVE WalkString(_, _)
WalkString(rel, sep) ==
    IF rel = <<>> THEN start_path
    ELSE WalkString(Parent(rel), sep) \o <<sep, Last(rel)>>

\* The directory of the file system that a path names ("/" is accepted as
\* a separator everywhere), <<"?">> if there is none.
Resolve(directory) ==
    LET hits == {k \in 1..Len(fs.walk) : WalkString(fs.walk[k], Slash) \o <<Slash>> = directory}
    IN  IF hits = {} THEN <<"?">> ELSE fs.walk[CHOOSE k \in hits : TRUE]

\* os.listdir(directory): the files of the directory and its sub-directories.
listdir(directory) ==
    LET rel == Resolve(directory)
        subs == {k \in 1..Len(fs.walk) : Len(fs.walk[k]) > 0 /\ Parent(fs.walk[k]) = rel}
        RECURSIVE SubNames(_)
        SubNames(k) ==
            IF k > Len(fs.walk) THEN <<>>
            ELSE (IF k \in subs THEN << <<Last(fs.walk[k])>> >> ELSE <<>>) \o SubNames(k + 1)
    IN  (IF rel = <<>> THEN <<>> ELSE fs.listing[rel]) \o SubNames(1)

Max(S) == CHOOSE x \in S : \A y \in S : y <= x
Alloc(h) == IF DOMAIN h = {} THEN 1 ELSE Max(DOMAIN h) + 1

Refs(q) == {q[k] : k \in 1..Len(q)}

\* The objects still referenced after an assignment.
Reachable(h, live) == [r \in DOMAIN h \cap live |-> h[r]]

Init ==
    /\ fs \in FileSystems
    /\ pc = "start"
    /\ error = ""
    /\ all_sub_directories = <<>>
    /\ sub_directory_list = <<>>
    /\ sub_directory_names = <<>>
    /\ folder = 0
    /\ heap = [r \in {} |-> PixelTable]
    /\ df = NoRef
    /\ subtracted_df = NoRef
    /\ number_of_runs = 0
    /\ averaged_df = NoRef
    /\ dataframes = <<>>
    /\ writer = <<>>
    /\ i = 0
    /\ saves = 0
    /\ mean_input = <<>>

---------------------------------------------------------------------------
(* The script *)

\* Lines 131-148: the sub-folders of start_path and the sheet names.
Discover ==
    /\ pc = "start"
    /\ LET walked == [k \in 1..Len(fs.walk) |-> WalkString(fs.walk[k], fs.sep)]
           all == [k \in 1..Len(walked) |-> Replace(walked[k], Backslash, Slash)]
           raw_sub_directory_list == SubSeq(all, 2, Len(all))
       IN  /\ all_sub_directories' = all
           /\ sub_directory_list' =
                 [k \in 1..Len(raw_sub_directory_list) |-> raw_sub_directory_list[k] \o <<Slash>>]
           /\ sub_directory_names' =
                 [k \in 1..Len(raw_sub_directory_list) |-> Last(Split(raw_sub_directory_list[k], Slash))]
    /\ folder' = 1
    /\ pc' = "loop"
    /\ UNCHANGED <<fs, error, tables, output>>

InLoop == pc = "loop" /\ folder <= Len(sub_directory_list)

RunFiles(directory) == SelectSeq(listdir(directory), LAMBDA e : EndsWith(e, ".asc"))

\* df = iterate_over_runs(sub_folder): a new table with one column per run
\* file and the label row on top.
IterateOverRuns ==
    /\ InLoop
    /\ LET directory == sub_directory_list[folder]
           t == AddRuns(PixelTable, directory, listdir(directory), 1)
           ref == Alloc(heap)
       IN  /\ RowFits(t)
           /\ heap' = [r \in DOMAIN heap \cup {ref} |->
                          IF r = ref THEN add_run_numbers(t) ELSE heap[r]]
           /\ df' = ref
    /\ pc' = "subtract"
    /\ UNCHANGED <<fs, error, names, folder, subtracted_df, number_of_runs, averaged_df,
                   dataframes, mean_input, output>>

\* add_run_numbers raises ValueError: the label row does not fit the table.
IterateNoRuns ==
    /\ InLoop
    /\ LET directory == sub_directory_list[folder]
       IN  ~RowFits(AddRuns(PixelTable, directory, listdir(directory), 1))
    /\ pc' = "failed"
    /\ error' = "ValueError"
    /\ UNCHANGED <<fs, names, folder, tables, output>>

\* A run file cannot be opened or parsed: asc_read raises.
IterateReadError ==
    /\ InLoop
    /\ RunFiles(sub_directory_list[folder]) # <<>>
    /\ pc' = "failed"
    /\ error' = "OSError"
    /\ UNCHANGED <<fs, names, folder, tables, output>>

\* Faulty variant: the function reads the table of the previous call
\* through another process-wide variable.
SubtractBackgroundStale ==
    /\ pc = "subtract"
    /\ LET out == subtract_background(heap, df, IF subtracted_df = NoRef THEN df ELSE subtracted_df)
       IN  /\ heap' = out.heap
           /\ number_of_runs' = out.count
    /\ subtracted_df' = df
    /\ pc' = "average"
    /\ UNCHANGED <<fs, error, names, folder, df, averaged_df, dataframes, mean_input, output>>

\* subtracted_tuple = subtract_background(df) and its unpacking.
SubtractBackground ==
    /\ pc = "subtract"
    /\ LET out == subtract_background(heap, df, df)
       IN  /\ heap' = out.heap
           /\ number_of_runs' = out.count
    /\ subtracted_df' = df
    /\ pc' = "average"
    /\ UNCHANGED <<fs, error, names, folder, df, averaged_df, dataframes, mean_input, output>>

\* averaged_df = get_averaged_data_column(subtracted_df, number_of_runs)
GetAveragedDataColumn ==
    /\ pc = "average"
    /\ \E path \in {"reindex", "append"} :
          heap' = Reachable(
                     [heap EXCEPT ![subtracted_df] =
                         get_averaged_data_column(heap[subtracted_df], number_of_runs, path)],
                     {df, subtracted_df} \cup Refs(dataframes))
    /\ mean_input' = LET t == heap[subtracted_df]
                      sel == TrailingColumns(t, number_of_runs)
                  IN  [c \in 1..Cardinality(sel) |-> t.cols[Len(t.cols) - Cardinality(sel) + c].name]
    /\ averaged_df' = subtracted_df
    /\ pc' = "collect"
    /\ UNCHANGED <<fs, error, names, folder, df, subtracted_df, number_of_runs, dataframes, output>>

\* The mean over the selected cells meets a string and pandas does not fall
\* back to the numeric columns: TypeError.
AverageTypeError ==
    /\ pc = "average"
    /\ HasStr(heap[subtracted_df], TrailingColumns(heap[subtracted_df], number_of_runs))
    /\ pc' = "failed"
    /\ error' = "TypeError"
    /\ UNCHANGED <<fs, names, folder, tables, output>>

\* final_df = averaged_df.set_index("Pixel"); dataframes.append(final_df)
AppendFinal ==
    /\ pc = "collect"
    /\ LET final_df == Alloc(heap)
       IN  /\ heap' = [r \in DOMAIN heap \cup {final_df} |->
                          IF r = final_df THEN set_index(heap[averaged_df], PixelName) ELSE heap[r]]
           /\ dataframes' = Append(dataframes, final_df)
    /\ folder' = folder + 1
    /\ pc' = "loop"
    /\ UNCHANGED <<fs, error, names, df, subtracted_df, number_of_runs, averaged_df,
                   mean_input, output>>

\* writer = pd.ExcelWriter(end_path); i = 0
CreateWriter ==
    /\ pc = "loop"
    /\ folder > Len(sub_directory_list)
    /\ writer' = [path |-> end_path, sheets |-> <<>>]
    /\ i' = 0
    /\ pc' = "write"
    /\ UNCHANGED <<fs, error, names, folder, tables, saves>>

\* The cells DataFrame.to_excel writes: the index column, then the columns,
\* each under its header.
Grid(t) == << [name |-> t.iname, cells |-> t.index] >> \o t.cols

\* Writing to a sheet that exists overwrites its cells; what the new table
\* does not cover stays.
Overlay(below, above) ==
    [c \in 1..(IF Len(below) > Len(above) THEN Len(below) ELSE Len(above)) |->
        IF c <= Len(above) THEN above[c] ELSE below[c]]

SheetPos(sheets, name) ==
    IF \E k \in 1..Len(sheets) : sheets[k].name = name
    THEN CHOOSE k \in 1..Len(sheets) : sheets[k].name = name
    ELSE 0

to_excel(sheets, t, sheet_name) ==
    LET k == SheetPos(sheets, sheet_name)
    IN  IF k = 0 THEN Append(sheets, [name |-> sheet_name, grid |-> Grid(t)])
        ELSE [sheets EXCEPT ![k].grid = Overlay(@, Grid(t))]

\* One pass of the sheet loop: dataframe.to_excel(...); i += 1
ToExcel ==
    /\ pc = "write"
    /\ i < Len(dataframes)
    /\ writer' = [writer EXCEPT !.sheets =
                     to_excel(@, heap[dataframes[i + 1]], sub_directory_names[i + 1])]
    /\ i' = i + 1
    /\ UNCHANGED <<fs, pc, error, names, folder, tables, saves>>

\* Faulty variant: saves inside the sheet loop.
SaveBeforeLastSheet ==
    /\ pc = "write"
    /\ saves' = saves + 1
    /\ pc' = "done"
    /\ UNCHANGED <<fs, error, names, folder, tables, writer, i>>

\* writer.save()
Save ==
    /\ pc = "write"
    /\ i = Len(dataframes)
    /\ saves' = saves + 1
    /\ pc' = "done"
    /\ UNCHANGED <<fs, error, names, folder, tables, writer, i>>

\* openpyxl refuses to save a workbook without any sheet.
SaveNoSheet ==
    /\ pc = "write"
    /\ i = Len(dataframes)
    /\ writer.sheets = <<>>
    /\ pc' = "failed"
    /\ error' = "IndexError"
    /\ UNCHANGED <<fs, names, folder, tables, output>>

Next ==
    \/ Discover
    \/ IterateOverRuns
    \/ IterateNoRuns
    \/ IterateReadError
    \/ SubtractBackground
    \/ GetAveragedDataColumn
    \/ AverageTypeError
    \/ AppendFinal
    \/ CreateWriter
    \/ ToExcel
    \/ Save
    \/ SaveNoSheet

Spec == Init /\ [][Next]_vars

TypeOK ==
    /\ pc \in {"start", "loop", "subtract", "average", "collect", "write", "done", "failed"}
    /\ saves \in 0..1

---------------------------------------------------------------------------
(* What the properties speak about *)

DataRows == 1..NumPixels

\* The run files of the j-th experiment folder, in enumeration order.
Runs(j) == RunFiles(sub_directory_list[j])

\* The intensity a run file holds for pixel r, missing past its last row.
FileCell(name, r) == IF r <= FileRows(name) THEN Num(FileValue(name, r)) ELSE NaN

Cells(t, name) == t.cols[ColumnPos(t, name)].cells
ColumnNames(t) == [c \in 1..Len(t.cols) |-> t.cols[c].name]
RunNames(n) == [k \in 1..n |-> RunName(k)]

\* The table of the folder being processed has its label row, its
\* subtracted columns, its Mean column.
Annotated == pc \in {"subtract", "average", "collect"}
Subtracted == pc \in {"average", "collect"}
Averaged == pc = "collect"

\* Sum and number of the values present among Run: 1 .. Run: k in row p.
RECURSIVE RunSum(_, _, _)
RunSum(t, p, k) ==
    IF k = 0 THEN Num(0)
    ELSE LET x == Cells(t, RunName(k))[p]
             rest == RunSum(t, p, k - 1)
         IN  IF IsNa(x) THEN rest ELSE Frac(x.n * rest.d + rest.n * x.d, x.d * rest.d)

RECURSIVE RunCount(_, _, _)
RunCount(t, p, k) ==
    IF k = 0 THEN 0
    ELSE RunCount(t, p, k - 1) + (IF IsNa(Cells(t, RunName(k))[p]) THEN 0 ELSE 1)

---------------------------------------------------------------------------
(* Properties *)

\* C1: with N >= 2 run files, column "Run: k" holds, in every data row r,
\* the value of the (k+1)-th enumerated file minus that of the first one,
\* and these are the table's raw columns k+1 and 1.
C1_BackgroundSubtracted ==
    Subtracted =>
        LET t == heap[df]
            runs == Runs(folder)
        IN  Len(runs) >= 2 =>
               \A k \in 1..(Len(runs) - 1) :
                  /\ ColumnPos(t, RunName(k)) # 0
                  /\ \A r \in DataRows :
                        /\ Cells(t, RunName(k))[r + 1] =
                              CellSub(FileCell(runs[k + 1], r), FileCell(runs[1], r))
                        /\ Cells(t, RunName(k))[r + 1] =
                              CellSub(t.cols[k + 2].cells[r + 1], t.cols[2].cells[r + 1])

\* C1 witness: raw values 10, 15, 12 give Run: 1 = 5 and Run: 2 = 2.
C1_Scenario ==
    /\ pc = "average"
    /\ Runs(folder) = <<Run1, Run2, Run3>>
    /\ \A r \in DataRows :
          /\ Cells(heap[df], RunName(1))[r + 1] = Num(5)
          /\ Cells(heap[df], RunName(2))[r + 1] = Num(2)

\* C2 (as claimed): for N >= 1 the mean is taken over exactly the columns
\* Run: 1 .. Run: N-1 and Mean is their arithmetic mean in every data row
\* in which they all hold a value.
C2_MeanOverRunColumns ==
    Averaged =>
        LET t == heap[df]
            n == Len(Runs(folder)) - 1
        IN  /\ mean_input = RunNames(n)
            /\ \A r \in DataRows :
                  RunCount(t, r + 1, n) = n /\ n > 0 =>
                     LET total == RunSum(t, r + 1, n)
                     IN  Cells(t, MeanName)[r + 1] = Frac(total.n, total.d * n)

\* C3: a finished table of a folder with N >= 1 run files has exactly the N
\* raw-run columns, the N-1 columns Run: 1 .. Run: N-1 and one Mean column,
\* and subtract_background returns N-1.
FinishedColumns(t, runs) ==
    /\ SelectSeq(ColumnNames(t), LAMBDA x : EndsWith(x, ".asc")) = runs
    /\ SelectSeq(ColumnNames(t), LAMBDA x : x[1] = "Run: ") = RunNames(Len(runs) - 1)
    /\ Len(SelectSeq(ColumnNames(t), LAMBDA x : x = MeanName)) = 1

C3_ColumnCounts ==
    /\ Subtracted => number_of_runs = Len(Runs(folder)) - 1
    /\ Averaged => FinishedColumns(heap[df], Runs(folder))
    /\ \A j \in 1..Len(dataframes) : FinishedColumns(heap[dataframes[j]], Runs(j))

C3_ThreeRunsFinished ==
    /\ Len(dataframes) = 1
    /\ Len(Runs(1)) = 3

\* C4: the label row is row 0 above the data rows 1..1024; its Pixel cell
\* is empty, its first run cell is "BG", the others are 1, 2, ..., N-1 in
\* column order, one label per run column.
C4_LabelRow ==
    pc = "subtract" =>
        LET t == heap[df]
            n == Len(Runs(folder))
        IN  /\ n >= 1
            /\ Len(t.cols) = n + 1
            /\ t.index = [p \in 1..(NumPixels + 1) |-> Num(p - 1)]
            /\ t.cols[1].cells[1] = NaN
            /\ t.cols[2].cells[1] = Str("BG")
            /\ \A c \in 3..(n + 1) : t.cols[c].cells[1] = Num(c - 2)
            /\ Cardinality({c \in 1..Len(t.cols) : ~IsNa(t.cols[c].cells[1])}) = Len(t.cols) - 1
            /\ \A r \in DataRows :
                  /\ t.cols[1].cells[r + 1] = Num(r)
                  /\ \A c \in 2..(n + 1) : t.cols[c].cells[r + 1] = FileCell(Runs(folder)[c - 1], r)

C4_ThreeLabels ==
    /\ pc = "subtract"
    /\ Len(Runs(folder)) = 3
    /\ heap[df].cols[4].cells[1] = Num(2)

\* C5 (as claimed): a folder without any run file does not abort the run.
C5_NoRunsCompletes ==
    pc = "failed" /\ folder \in 1..Len(sub_directory_list) => Runs(folder) # <<>>

\* C6 (as claimed): after a successful run the workbook holds one sheet per
\* directory below the root, in walk order, the j-th named with the base
\* name of the j-th directory and holding its finished table.
C6_SheetPerFolder ==
    pc = "done" =>
        /\ Len(writer.sheets) = Len(fs.walk) - 1
        /\ \A j \in 1..Len(writer.sheets) :
              /\ j + 1 <= Len(fs.walk)
              /\ writer.sheets[j].name = <<Last(fs.walk[j + 1])>>
              /\ writer.sheets[j].grid = Grid(heap[dataframes[j]])

\* C7: a sheet is written only once every folder's table is computed, the
\* workbook is saved at most once, exactly once in a completed run and only
\* after the last sheet, and a failure while a folder is processed ends the
\* run at that folder with no writer, no sheet and no save.
FolderErrors == {"ValueError", "OSError", "TypeError"}

C7_WriteAfterCompute ==
    /\ writer # <<>> => Len(dataframes) = Len(sub_directory_list)
    /\ saves <= 1
    /\ pc = "done" <=> saves = 1
    /\ saves = 1 => i = Len(dataframes) /\ Len(dataframes) = Len(sub_directory_list)
    /\ error \in FolderErrors =>
          /\ pc = "failed"
          /\ writer = <<>>
          /\ saves = 0
          /\ Len(dataframes) = folder - 1
    /\ pc = "failed" <=> error # ""

C7_TwoSheetsSaved ==
    /\ pc = "done"
    /\ saves = 1
    /\ Len(writer.sheets) = 2

\* C8 (as claimed): a data row with a missing Run: k value has a missing Mean.
C8_MissingPropagates ==
    Averaged =>
        LET t == heap[df]
            n == Len(Runs(folder)) - 1
        IN  \A r \in DataRows :
               RunCount(t, r + 1, n) < n => IsNa(Cells(t, MeanName)[r + 1])

\* C8 (amended): with N >= 2 run files the Mean of a data row is missing
\* exactly when all its Run: k values are missing, and otherwise it is the
\* arithmetic mean of the values present.
C8_MissingSkipped ==
    Averaged =>
        LET t == heap[df]
            n == Len(Runs(folder)) - 1
        IN  n >= 1 =>
               \A r \in DataRows :
                  LET cnt == RunCount(t, r + 1, n)
                      total == RunSum(t, r + 1, n)
                  IN  IF cnt = 0 THEN IsNa(Cells(t, MeanName)[r + 1])
                      ELSE Cells(t, MeanName)[r + 1] = Frac(total.n, total.d * cnt)

C8_PartlyMissingRow ==
    /\ Averaged
    /\ LET t == heap[df]
           n == Len(Runs(folder)) - 1
       IN  \E r \in DataRows :
              /\ RunCount(t, r + 1, n) \in 1..(n - 1)
              /\ ~IsNa(Cells(t, MeanName)[r + 1])

\* C9: from add_run_numbers on, whatever the length of the run files, a
\* table has 1025 rows with Pixel cells empty, 1, ..., 1024 and its columns
\* are Pixel, the raw runs in enumeration order, Run: 1 .. Run: N-1, Mean
\* (the finished table carries Pixel as its index, the first column of its
\* sheet); a step on a table leaves the columns it already has as they are.
StageNames(runs) ==
    <<PixelName>> \o runs
        \o (IF Subtracted THEN RunNames(Len(runs) - 1) ELSE <<>>)
        \o (IF Averaged THEN <<MeanName>> ELSE <<>>)

PixelCells == [p \in 1..(NumPixels + 1) |-> IF p = 1 THEN NaN ELSE Num(p - 1)]

Shaped(columns, expected) ==
    /\ [c \in 1..Len(columns) |-> columns[c].name] = expected
    /\ \A c \in 1..Len(columns) : Len(columns[c].cells) = NumPixels + 1
    /\ columns[1].cells = PixelCells

C9_Shape ==
    /\ Annotated =>
          /\ Len(heap[df].index) = NumPixels + 1
          /\ Shaped(heap[df].cols, StageNames(Runs(folder)))
    /\ \A j \in 1..Len(dataframes) :
          Shaped(Grid(heap[dataframes[j]]),
                 <<PixelName>> \o Runs(j) \o RunNames(Len(Runs(j)) - 1) \o <<MeanName>>)

C9_AppendOnly ==
    df' = df /\ df # NoRef =>
        /\ Len(heap'[df].cols) >= Len(heap[df].cols)
        /\ \A c \in 1..Len(heap[df].cols) : heap'[df].cols[c] = heap[df].cols[c]

C9_RowsAndColumnOrder == []C9_Shape /\ [][C9_AppendOnly]_vars

C9_ShortAndLongRuns ==
    /\ Averaged
    /\ \E k \in 1..Len(Runs(folder)) : Runs(folder)[k] = ShortRun
    /\ \E k \in 1..Len(Runs(folder)) : Runs(folder)[k] = LongRun
    /\ Len(heap[df].index) = NumPixels + 1

\* C10: subtract_background, reading the process-wide df, produces what a
\* subtractor given only the table of the call produces; the Run: k columns
\* of every collected table come from the run files of its own folder; and
\* no step changes a table that is already collected.
C10_OwnRuns ==
    \A j \in 1..Len(dataframes) :
       \A k \in 1..(Len(Runs(j)) - 1) :
          \A r \in DataRows :
             Cells(heap[dataframes[j]], RunName(k))[r + 1] =
                CellSub(FileCell(Runs(j)[k + 1], r), FileCell(Runs(j)[1], r))

C10_Step ==
    /\ pc = "subtract" /\ pc' = "average" =>
          /\ subtracted_df' = df
          /\ heap'[df] = subtract_background([x \in {df} |-> heap[df]], df, df).heap[df]
    /\ \A j \in 1..Len(dataframes) :
          /\ j <= Len(dataframes')
          /\ dataframes'[j] = dataframes[j]
          /\ heap'[dataframes[j]] = heap[dataframes[j]]

C10_FoldersIndependent == []C10_OwnRuns /\ [][C10_Step]_vars

C10_TwoDifferentFolders ==
    /\ Len(dataframes) = 2
    /\ Runs(1) # Runs(2)
    /\ Cells(heap[dataframes[1]], RunName(1)) # Cells(heap[dataframes[2]], RunName(1))

====
